---- MODULE Spec2Model ----
(***************************************************************************)
(* Model of the three announcement-alert scripts final_bizinfo.py,         *)
(* kstartup_alert.py and iris_alert.py: one run of a script is a sequence  *)
(* of I/O steps (configuration check, seen-set read, fetch, sends, seen-   *)
(* set write); the pure functions between them are operators.              *)
(*                                                                         *)
(* Text.  A Python str is a sequence of code points.  A Hangul syllable is *)
(* written as its romanisation, a token of two or more Latin letters       *)
(* ("jeon", "buk"); an ASCII character is the one-character token itself   *)
(* ("R", "&", "D", " ").  Distinct code points have distinct tokens, so    *)
(* substring tests on token sequences are the substring tests of the code. *)
(***************************************************************************)
EXTENDS Integers, Sequences, FiniteSets, TLC

----------------------------------------------------------------------------
(* Bounds of the exploration *)

\* longest short payload (records of an API response, anchors of a page)
MaxLen == 2
\* identifiers that may already be in the seen-set file before the first run
MaxPreSeen == 1

----------------------------------------------------------------------------
(* Python str helpers *)

WS == {" ", "\t", "\n"}

\* `term in text`
Contains(text, term) ==
    \E i \in 0..(Len(text) - Len(term)) :
        SubSeq(text, i + 1, i + Len(term)) = term

\* text.startswith(prefix)
StartsWith(text, prefix) ==
    /\ Len(prefix) <= Len(text)
    /\ SubSeq(text, 1, Len(prefix)) = prefix

RECURSIVE LStrip(_)
LStrip(s) == IF s # <<>> /\ Head(s) \in WS THEN LStrip(Tail(s)) ELSE s

RECURSIVE RStrip(_)
RStrip(s) ==
    IF s # <<>> /\ s[Len(s)] \in WS THEN RStrip(SubSeq(s, 1, Len(s) - 1)) ELSE s

\* s.strip()
Strip(s) == RStrip(LStrip(s))

\* " ".join(parts)
RECURSIVE JoinSp(_)
JoinSp(parts) ==
    IF parts = <<>> THEN <<>>
    ELSE IF Len(parts) = 1 THEN parts[1]
    ELSE parts[1] \o <<" ">> \o JoinSp(Tail(parts))

\* items[:n]
Take(s, n) == SubSeq(s, 1, IF Len(s) < n THEN Len(s) ELSE n)

DigitOf(n) == <<"0", "1", "2", "3", "4", "5", "6", "7", "8", "9">>[n + 1]

\* str(n) for a non-negative int
RECURSIVE Digits(_)
Digits(n) == IF n < 10 THEN <<DigitOf(n)>> ELSE Digits(n \div 10) \o <<DigitOf(n % 10)>>

----------------------------------------------------------------------------
(* JSON values as json.load / r.json() build them *)

JNull == [t |-> "null"]
JStr(s) == [t |-> "str", v |-> s]
JNum(n) == [t |-> "num", v |-> n]
JList(l) == [t |-> "list", v |-> l]
JDict(d) == [t |-> "dict", v |-> d]

IsList(x) == x.t = "list"
IsDict(x) == x.t = "dict"

\* d.get(k, default) on the mapping of a dict
Get(d, k, default) == IF k \in DOMAIN d THEN d[k] ELSE default

\* truth value of a Python object
Truthy(x) ==
    CASE x.t = "null" -> FALSE
      [] x.t = "str" -> x.v # <<>>
      [] x.t = "num" -> x.v # 0
      [] x.t = "list" -> x.v # <<>>
      [] x.t = "dict" -> DOMAIN x.v # {}

\* a or b
Or(a, b) == IF Truthy(a) THEN a ELSE b

\* str(x) for the scalar values a field of a record holds
Str(x) ==
    CASE x.t = "str" -> x.v
      [] x.t = "num" -> Digits(x.v)
      [] x.t = "null" -> <<"N", "o", "n", "e">>

----------------------------------------------------------------------------
(* final_bizinfo.py: keyword lists *)

jeonbuk == <<"jeon", "buk">>
jeollabukdo == <<"jeon", "ra", "buk", "do">>
jeonbukSelfGov == <<"jeon", "buk", "teuk", "byeol", "ja", "chi", "do">>
chungnam == <<"chung", "nam">>
chungcheongnamdo == <<"chung", "cheong", "nam", "do">>
cheonan == <<"cheon", "an">>
cheonansi == <<"cheon", "an", "si">>
yungja == <<"yung", "ja">>
daechul == <<"dae", "chul">>
jageum == <<"ja", "geum">>
jageumjiwon == <<"ja", "geum", "ji", "won">>
jeongchaekjageum == <<"jeong", "chaek", "ja", "geum">>
bojeung == <<"bo", "jeung">>
ichabojeon == <<"ii", "cha", "bo", "jeon">>
suchul == <<"su", "chul">>
suchuljiwon == <<"su", "chul", "ji", "won">>
haeoejinchul == <<"hae", "oe", "jin", "chul">>
baucheo == <<"ba", "uu", "cheo">>
suchulbaucheo == <<"su", "chul", "ba", "uu", "cheo">>
gwaje == <<"gwa", "je">>
RnD == <<"R", "&", "D">>
rnd == <<"r", "&", "d">>
yeongugaebal == <<"yeon", "gu", "gae", "bal">>
jiwonsaeop == <<"ji", "won", "sa", "eop">>
saeophwa == <<"sa", "eop", "hwa">>
siljeung == <<"sil", "jeung">>
PoC == <<"P", "o", "C">>
poc == <<"p", "o", "c">>
testbed == <<"te", "seu", "teu", "be", "deu">>
geomjeung == <<"geom", "jeung">>

\* KEYWORDS of final_bizinfo.py, in the order of the source
KEYWORDS == <<
    jeonbuk, jeollabukdo, jeonbukSelfGov,
    chungnam, chungcheongnamdo, cheonan, cheonansi,
    yungja, daechul, jageum, jageumjiwon, jeongchaekjageum, bojeung, ichabojeon,
    suchul, suchuljiwon, haeoejinchul, baucheo, suchulbaucheo,
    gwaje, RnD, rnd, yeongugaebal, jiwonsaeop, saeophwa, siljeung, PoC,
    testbed, geomjeung >>

JEONBUK_TERMS == <<
    jeonbuk, jeollabukdo, jeonbukSelfGov,
    <<"jeon", "ju", "si">>, <<"gun", "san", "si">>, <<"ik", "san", "si">>,
    <<"jeong", "eup", "si">>, <<"nam", "won", "si">>, <<"gim", "je", "si">>,
    <<"wan", "ju", "gun">>, <<"jin", "an", "gun">>, <<"mu", "ju", "gun">>,
    <<"jang", "su", "gun">>, <<"im", "sil", "gun">>, <<"sun", "chang", "gun">>,
    <<"go", "chang", "gun">>, <<"bu", "an", "gun">> >>

CHUNGNAM_TERMS == << chungnam, chungcheongnamdo, cheonan, cheonansi >>

FIN_TERMS == <<
    yungja, daechul, jeongchaekjageum, bojeung, ichabojeon, jageum, jageumjiwon,
    <<"un", "jeon", "ja", "geum">>, <<"si", "seol", "ja", "geum">> >>

EXPORT_TERMS == <<
    suchul, haeoejinchul, suchuljiwon, suchulbaucheo, baucheo,
    <<"hae", "oe", "ma", "ke", "ting">>, <<"hae", "oe", "jeon", "si">>,
    <<"mu", "yeok">>, <<"tong", "sang">> >>

RND_TERMS == <<
    gwaje, RnD, rnd, yeongugaebal, jiwonsaeop, saeophwa, siljeung, PoC, poc,
    testbed, geomjeung, <<"si", "beom">>, <<"de", "mo">> >>

\* any(k in text for k in terms)
AnyIn(terms, text) == \E n \in 1..Len(terms) : Contains(text, terms[n])

\* category labels, by the name the digest header shows
CatExport == "export"
CatFin == "financing"
CatRnd == "rnd"
CatJeonbuk == "jeonbuk"
CatChungnam == "chungnam_cheonan"
None == "None"

----------------------------------------------------------------------------
(* final_bizinfo.py: pure functions *)

\* [x for x in l if isinstance(x, dict)]
OnlyDicts(l) == SelectSeq(l, IsDict)

\* normalize_items without the case of jsonArray.item being one object
normalize_items_lists_only(data) ==
    IF IsList(data) THEN OnlyDicts(data.v)
    ELSE IF IsDict(data) THEN
        LET json_array == Get(data.v, "jsonArray", JNull) IN
        IF IsList(json_array) THEN OnlyDicts(json_array.v)
        ELSE IF IsDict(json_array) THEN
            LET items == Get(json_array.v, "item", JList(<<>>)) IN
            IF IsList(items) THEN OnlyDicts(items.v)
            ELSE <<>>
        ELSE <<>>
    ELSE <<>>

normalize_items(data) ==
    IF IsList(data) THEN OnlyDicts(data.v)
    ELSE IF IsDict(data) THEN
        LET json_array == Get(data.v, "jsonArray", JNull) IN
        IF IsList(json_array) THEN OnlyDicts(json_array.v)
        ELSE IF IsDict(json_array) THEN
            LET items == Get(json_array.v, "item", JList(<<>>)) IN
            IF IsDict(items) THEN <<items>>
            ELSE IF IsList(items) THEN OnlyDicts(items.v)
            ELSE <<>>
        ELSE <<>>
    ELSE <<>>

\* str(item.get(k, ""))
Field(item, k) == Str(Get(item.v, k, JStr(<<>>)))

MatchText(item) ==
    JoinSp(<< Field(item, "title"), Field(item, "pblancNm"),
              Field(item, "description"), Field(item, "author"),
              Field(item, "excInsttNm"), Field(item, "hashTags"),
              Field(item, "reqstDt"), Field(item, "link") >>)

matches_keywords(item) == AnyIn(KEYWORDS, MatchText(item))

ClassifyText(item) ==
    JoinSp(<< Field(item, "title"), Field(item, "pblancNm"),
              Field(item, "description"), Field(item, "hashTags"),
              Field(item, "hashtags"), Field(item, "reqstDt"),
              Field(item, "link") >>)

\* classify_item with financing tested before export
classify_item_fin_first(item) ==
    LET text == ClassifyText(item)
    IN  IF AnyIn(FIN_TERMS, text) THEN CatFin
        ELSE IF AnyIn(EXPORT_TERMS, text) THEN CatExport
        ELSE IF AnyIn(RND_TERMS, text) THEN CatRnd
        ELSE IF AnyIn(JEONBUK_TERMS, text) THEN CatJeonbuk
        ELSE IF AnyIn(CHUNGNAM_TERMS, text) THEN CatChungnam
        ELSE None

classify_item(item) ==
    LET text == ClassifyText(item)
        is_exp == AnyIn(EXPORT_TERMS, text)
        is_fin == AnyIn(FIN_TERMS, text)
        is_rnd == AnyIn(RND_TERMS, text)
        is_jb == AnyIn(JEONBUK_TERMS, text)
        is_cn == AnyIn(CHUNGNAM_TERMS, text)
    IN  IF is_exp THEN CatExport
        ELSE IF is_fin THEN CatFin
        ELSE IF is_rnd THEN CatRnd
        ELSE IF is_jb THEN CatJeonbuk
        ELSE IF is_cn THEN CatChungnam
        ELSE None

\* seq = str(it.get("seq") or it.get("pblancId") or it.get("link") or "")
SeqOf(it) ==
    Str(Or(Or(Or(Get(it.v, "seq", JNull), Get(it.v, "pblancId", JNull)),
              Get(it.v, "link", JNull)), JStr(<<>>)))

\* IsNewHit without `if seq in seen: continue`
IsNewHitIgnoringSeen(it, seen_ids) ==
    /\ SeqOf(it) # <<>>
    /\ matches_keywords(it)

\* for it in items: ... new_hits.append((seq, it))
IsNewHit(it, seen_ids) ==
    /\ SeqOf(it) # <<>>
    /\ SeqOf(it) \notin seen_ids
    /\ matches_keywords(it)

NewHits(items, seen_ids) ==
    LET hits == SelectSeq(items, LAMBDA it : IsNewHit(it, seen_ids))
    IN  [i \in 1..Len(hits) |-> [seq |-> SeqOf(hits[i]), it |-> hits[i]]]

PER_RUN_CAP == 60

\* Top without the slice
TopUncapped(hits) == hits

\* top = new_hits[:60]
Top(hits) == Take(hits, PER_RUN_CAP)

\* order with the regions before the purposes
order_regions_first == << CatJeonbuk, CatChungnam, CatExport, CatFin, CatRnd >>

\* order = [...]
order == << CatExport, CatFin, CatRnd, CatJeonbuk, CatChungnam >>

\* build_category_message(category, items, max_items): the header counts and
\* the numbered entries, each with the three values the text shows
MAX_ITEMS == 10
NoTitle == JStr(<<"(", "je", "mok", " ", "eop", "seum", ")">>)
Min(a, b) == IF a < b THEN a ELSE b

build_category_message(category, items, max_items) ==
    [ category |-> category,
      total |-> Len(items),
      shown |-> Min(Len(items), max_items),
      entries |-> [ i \in 1..Min(Len(items), max_items) |->
          [ title |-> Or(Or(Get(items[i].v, "title", JNull),
                            Get(items[i].v, "pblancNm", JNull)), NoTitle),
            period |-> Or(Or(Get(items[i].v, "reqstDt", JNull),
                             Get(items[i].v, "reqstBeginEndDe", JNull)), JStr(<<>>)),
            link |-> Or(Or(Get(items[i].v, "link", JNull),
                           Get(items[i].v, "pblancUrl", JNull)), JStr(<<>>)) ] ] ]

\* for seq, it in top: cat = classify_item(it) ...: the category of each
\* candidate of top, and the positions in top of the candidates of a category
\* (grouped[cat] and seq_by_cat[cat] hold the records and the identifiers at
\* these positions)
CatOf(top) == [ i \in 1..Len(top) |-> classify_item(top[i].it) ]

Positions(cat_of, cat) ==
    SelectSeq([ i \in 1..Len(cat_of) |-> i ], LAMBDA i : cat_of[i] = cat)

\* BizBatches marking every candidate of top seen with the first send, the
\* unclassified ones too
BizBatchesMarkingAll(top) ==
    LET cat_of == CatOf(top)
        cats == SelectSeq(order, LAMBDA c : Positions(cat_of, c) # <<>>)
    IN  [ k \in 1..Len(cats) |->
            LET at == Positions(cat_of, cats[k]) IN
            [ msg |-> build_category_message(cats[k],
                          [ j \in 1..Len(at) |-> top[at[j]].it ], MAX_ITEMS),
              ids |-> IF k = 1 THEN [ j \in 1..Len(top) |-> top[j].seq ]
                      ELSE [ j \in 1..Len(at) |-> top[at[j]].seq ] ] ]

\* for cat in order: if cat not in grouped: continue -- the sends main makes,
\* in order, each with the message text and the identifiers it marks seen
BizBatches(top) ==
    LET cat_of == CatOf(top)
        cats == SelectSeq(order, LAMBDA c : Positions(cat_of, c) # <<>>)
    IN  [ k \in 1..Len(cats) |->
            LET at == Positions(cat_of, cats[k]) IN
            [ msg |-> build_category_message(cats[k],
                          [ j \in 1..Len(at) |-> top[at[j]].it ], MAX_ITEMS),
              ids |-> [ j \in 1..Len(at) |-> top[at[j]].seq ] ] ]

\* BizPlan sending a digest of no entries when no candidate has a category
BizPlanNotifyingNone(items, seen_ids) ==
    LET new_hits == NewHits(items, seen_ids)
        top == Top(new_hits)
    IN  [ new_hits |-> new_hits, top |-> top,
          batches |-> IF items = <<>> \/ new_hits = <<>> THEN <<>>
                      ELSE IF BizBatches(top) = <<>>
                           THEN << [ msg |-> build_category_message(None, <<>>, MAX_ITEMS),
                                     ids |-> <<>> ] >>
                      ELSE BizBatches(top) ]

\* main from the fetched items to the decision what to send: the locals
\* new_hits and top, and the sends; no sends when main returns early
BizPlan(items, seen_ids) ==
    LET new_hits == NewHits(items, seen_ids)
        top == Top(new_hits)
    IN  [ new_hits |-> new_hits, top |-> top,
          batches |-> IF items = <<>> \/ new_hits = <<>> THEN <<>>
                      ELSE BizBatches(top) ]

----------------------------------------------------------------------------
(* The seen-set file (seen.json, seen_kstartup.json) *)

Absent == [t |-> "absent"]
Garbage == [t |-> "garbage"]
\* a JSON array of strings; the array is written sorted, so two arrays
\* written from the same set are the same array
IdArray(ids) == [t |-> "array", v |-> ids]

\* a seen-set file holding a JSON document that is no array of strings
JsonDoc(j) == [t |-> "json", v |-> j]

\* set(x) for the value json.load returned: the characters of a string, the
\* keys of an object (one character each in the documents of the model), the
\* elements of an array of strings; {} stands for the TypeError of a value
\* that is not iterable or has an unhashable element, which load_seen catches
PySet(j) ==
    CASE j.t = "str" -> { << j.v[i] >> : i \in 1..Len(j.v) }
      [] j.t = "dict" -> { << k >> : k \in DOMAIN j.v }
      [] j.t = "list" ->
            IF \E i \in 1..Len(j.v) : j.v[i].t # "str" THEN {}
            ELSE { j.v[i].v : i \in 1..Len(j.v) }
      [] OTHER -> {}

load_seen(f) ==
    CASE f.t = "array" -> f.v
      [] f.t = "json" -> PySet(f.v)
      [] OTHER -> {}

save_seen(seen_ids) == IdArray(seen_ids)

----------------------------------------------------------------------------
(* Inputs: what the Bizinfo API may answer *)

changeop == <<"chang", "eop">>
ilbanGonggo == <<"il", "ban", " ", "gong", "go">>

\* Each record of a category but the last also holds a term of the next
\* category in the order of priority.

\* seq is a JSON number; export and financing terms in the title
RecExpFin == JDict([seq |-> JNum(1), title |-> JStr(suchul \o <<" ">> \o yungja)])
\* identified by pblancId, titled by pblancNm; financing and R&D terms
RecFin == JDict([pblancId |-> JStr(<<"P", "2">>),
                 pblancNm |-> JStr(jeongchaekjageum \o <<" ">> \o RnD),
                 reqstDt |-> JStr(<<"2", "0", "2", "6">>)])
\* identified by its link; R&D and Jeonbuk terms
RecRnd == JDict([link |-> JStr(<<"h", "t", "t", "p", ":", "/", "/", "b", "/", "3">>),
                 title |-> JStr(gwaje \o <<" ">> \o jeonbuk)])
\* Jeonbuk and Cheonan terms
RecJeonbuk == JDict([seq |-> JStr(<<"4">>), title |-> JStr(jeonbuk \o <<" ">> \o cheonan)])
RecCheonan == JDict([seq |-> JStr(<<"5">>), title |-> JStr(cheonansi)])
\* a keyword only in excInsttNm: relevant, but in no category
RecUnclassified == JDict([seq |-> JStr(<<"6">>), title |-> JStr(ilbanGonggo),
                          excInsttNm |-> JStr(jeonbuk \o <<"do", "cheong">>)])
RecIrrelevant == JDict([seq |-> JStr(<<"7">>), title |-> JStr(ilbanGonggo)])
\* no seq, pblancId or link to identify it
RecNoId == JDict([seq |-> JNull, title |-> JStr(suchul)])
\* another record that resolves to the identifier "1"
RecDupId == JDict([seq |-> JStr(<<"1">>), title |-> JStr(baucheo)])
\* no title, no link; a region term only in the lower-case hashtags field
RecTagOnly == JDict([seq |-> JStr(<<"1", "0">>), hashtags |-> JStr(jeonbuk)])
\* no title, no pblancNm, no link, no pblancUrl; an export term in the
\* description
RecBodyOnly == JDict([seq |-> JStr(<<"1", "1">>), description |-> JStr(suchul)])
\* an array element that is no object
Junk == JStr(<<"x">>)

\* the records a short response is cut from; it lists the categories in the
\* reverse of the order of the sends, and RecExpFin twice
Master == << Junk, RecTagOnly, RecCheonan, RecJeonbuk, RecExpFin, RecRnd, RecFin,
             RecUnclassified, RecIrrelevant, RecNoId, RecDupId, RecExpFin >>

Elements == { Master[i] : i \in 1..Len(Master) }

\* the lists of at most n elements of m, in the order of m
RECURSIVE SubLists(_, _)
SubLists(m, n) ==
    IF m = <<>> \/ n = 0 THEN { <<>> }
    ELSE SubLists(Tail(m), n)
         \cup { <<Head(m)>> \o l : l \in SubLists(Tail(m), n - 1) }

ShortLists == SubLists(Master, MaxLen)

\* a backlog: n records with the identifiers 1..n, all of them export notices
Backlog(n) == [ i \in 1..n |-> JDict([seq |-> JNum(i), title |-> JStr(suchul)]) ]

\* how far a backlog may exceed the per-run cap
MaxOver == 1
LongLists == { Backlog(PER_RUN_CAP + k) : k \in 0..MaxOver }

\* the four documented shapes of a response carrying the records l
ShapeArray(l) == JList(l)
ShapeJsonArray(l) == JDict([jsonArray |-> JList(l)])
ShapeItemArray(l) == JDict([jsonArray |-> JDict([item |-> JList(l)])])
ShapeItemObject(r) == JDict([jsonArray |-> JDict([item |-> r])])

OtherShapes == {
    JDict(<<>>), JNull, JNum(0), JStr(<<"e", "r", "r">>),
    JDict([jsonArray |-> JStr(<<"x">>)]),
    JDict([jsonArray |-> JNull]),
    JDict([jsonArray |-> JDict(<<>>)]),
    JDict([jsonArray |-> JDict([item |-> JStr(<<"x">>)])]),
    JDict([items |-> JList(<<RecExpFin>>)]) }

\* a backlog the classifier drops: as many relevant records without a
\* category as the per-run cap admits, and then RecExpFin
StarvedList ==
    [ i \in 1..PER_RUN_CAP |->
        JDict([seq |-> JNum(100 + i), title |-> JStr(ilbanGonggo),
               excInsttNm |-> JStr(jeonbuk)]) ]
    \o << RecExpFin >>

\* responses with a record that has neither title nor link
SparseLists == { << RecBodyOnly >>, << RecNoId, RecBodyOnly >> }

BizResponses ==
    { ShapeArray(l) : l \in ShortLists \cup LongLists \cup SparseLists \cup { StarvedList } }
    \cup { ShapeJsonArray(l) : l \in ShortLists }
    \cup { ShapeItemArray(l) : l \in ShortLists }
    \cup { ShapeItemObject(r) : r \in Elements }
    \cup OtherShapes

----------------------------------------------------------------------------
(* kstartup_alert.py: keyword list and pure functions *)

jiwon == <<"ji", "won">>
haeoe == <<"hae", "oe">>

\* KEYWORDS of kstartup_alert.py, in the order of the source
KS_KEYWORDS == <<
    jeonbuk, jeollabukdo, <<"jeon", "ju", "si">>, <<"ik", "san", "si">>,
    <<"gun", "san">>, <<"gim", "je">>, <<"wan", "ju">>,
    chungnam, chungcheongnamdo, cheonan, cheonansi, <<"aa", "san">>, <<"dang", "jin">>,
    yungja, daechul, jageum, jageumjiwon, jeongchaekjageum, bojeung, ichabojeon,
    jiwon, jiwonsaeop, saeophwa, siljeung, siljeung \o <<"sa", "eop">>, siljeung \o jiwon,
    gwaje, RnD, RnD \o <<"sa", "eop">>, yeongugaebal, <<"gi", "sul", "gae", "bal">>,
    suchul, suchuljiwon, haeoejinchul, baucheo, suchulbaucheo,
    <<"geul", "ro", "beol">>, haeoe >>

\* norm(s): (s or "").strip()
norm(s) == Strip(s)

contains_keywords(text) == AnyIn(KS_KEYWORDS, text)

\* hashlib.sha256(raw).hexdigest(): a str that names its input; no two inputs
\* of the model share a digest, and no digest is a string of one character
Sha256Hex(raw) == << "sha256" >> \o raw

make_id(title, link) == Sha256Hex(title \o <<"|">> \o link)

\* a.get_text(" ", strip=True): the stripped, non-empty strings of the
\* element, joined by one space
GetText(strings) ==
    JoinSp(SelectSeq([ i \in 1..Len(strings) |-> Strip(strings[i]) ],
                     LAMBDA t : t # <<>>))

KS_ORIGIN == << "h", "t", "t", "p", "s", ":", "/", "/", "w", "w", "w", ".",
                "k", "-", "s", "t", "a", "r", "t", "u", "p", ".", "g", "o", ".", "k", "r" >>

MIN_TITLE_LEN == 6

\* the body of `for a in soup.select("a")`: what the anchor appends to
\* items, nothing when the loop continues without an append
AnchorItems(a) ==
    LET title == norm(GetText(a.strings))
        href == Str(Or(a.href, JStr(<<>>)))
    IN  IF title = <<>> \/ Len(title) < MIN_TITLE_LEN THEN <<>>
        ELSE IF ~(StartsWith(href, <<"/">>) \/ StartsWith(href, <<"h", "t", "t", "p">>))
             THEN <<>>
        ELSE LET link == IF StartsWith(href, <<"/">>) THEN KS_ORIGIN \o href ELSE href
             IN  IF contains_keywords(title \o <<" ">> \o link)
                 THEN << [title |-> title, link |-> link] >>
                 ELSE <<>>

\* uniq[key] = it ... list(uniq.values()): one item per identifier, at the
\* place of its first occurrence (the items of one identifier are equal)
RECURSIVE Dedup(_, _)
Dedup(items, keys) ==
    IF items = <<>> THEN <<>>
    ELSE LET key == make_id(Head(items).title, Head(items).link)
         IN  IF key \in keys THEN Dedup(Tail(items), keys)
             ELSE <<Head(items)>> \o Dedup(Tail(items), keys \cup {key})

\* the part of fetch_kstartup_items after the GET: anchors is soup.select("a")
RECURSIVE Collect(_)
Collect(anchors) ==
    IF anchors = <<>> THEN <<>>
    ELSE AnchorItems(Head(anchors)) \o Collect(Tail(anchors))

fetch_kstartup_items(anchors) == Dedup(Collect(anchors), {})

format_message(it) == [title |-> it.title, link |-> it.link]

KS_PER_RUN_CAP == 30

\* KsPlan without `if sid in seen: continue`
KsPlanIgnoringSeen(items, seen_ids) ==
    LET new_hits == [ i \in 1..Len(items) |->
                        [sid |-> make_id(items[i].title, items[i].link), it |-> items[i]] ]
        capped == Take(new_hits, KS_PER_RUN_CAP)
    IN  [ new_hits |-> new_hits,
          batches |-> [ i \in 1..Len(capped) |->
                          [msg |-> format_message(capped[i].it), ids |-> <<capped[i].sid>>] ] ]

\* main from the fetched items to the decision what to send
KsPlan(items, seen_ids) ==
    LET fresh == SelectSeq(items, LAMBDA it : make_id(it.title, it.link) \notin seen_ids)
        new_hits == [ i \in 1..Len(fresh) |->
                        [sid |-> make_id(fresh[i].title, fresh[i].link), it |-> fresh[i]] ]
        capped == Take(new_hits, KS_PER_RUN_CAP)
    IN  [ new_hits |-> new_hits,
          batches |-> [ i \in 1..Len(capped) |->
                          [msg |-> format_message(capped[i].it), ids |-> <<capped[i].sid>>] ] ]

----------------------------------------------------------------------------
(* Inputs: the anchors of the K-Startup page *)

TitleExport == <<"2", "6", " ">> \o suchul \o <<" ">> \o baucheo \o <<" ", "mo", "jip">>
TitleJeonbuk == jeonbuk \o <<" ">> \o changeop \o <<" ", "gong", "mo", "jeon">>
TitlePlain == <<"gong", "ji", " ", "sa", "hang", " ", "an", "nae">>
HrefRel1 == <<"/", "a", "/", "1">>
HrefAbs2 == <<"h", "t", "t", "p", ":", "/", "/", "x", "/", "2">>

\* a relative link
AnchorExport == [strings |-> <<TitleExport>>, href |-> JStr(HrefRel1)]
\* an absolute link; white space around the title
AnchorJeonbuk == [strings |-> << <<" ">> \o TitleJeonbuk \o <<"\n">> >>, href |-> JStr(HrefAbs2)]
\* the same title and link, the title split over two strings of the element
AnchorJeonbukSplit ==
    [strings |-> << jeonbuk \o <<" ">>, <<"\t">>, changeop \o <<" ", "gong", "mo", "jeon">> >>,
     href |-> JStr(HrefAbs2)]
\* the same again, with two spaces inside the title
AnchorJeonbukWide ==
    [strings |-> << jeonbuk \o <<" ", " ">> \o changeop \o <<" ", "gong", "mo", "jeon">> >>,
     href |-> JStr(HrefAbs2)]
\* a title shorter than six characters
AnchorShort == [strings |-> << suchul >>, href |-> JStr(<<"/", "a", "/", "3">>)]
\* a link that is neither relative nor http
AnchorScript == [strings |-> <<TitleExport>>,
                 href |-> JStr(<<"j", "a", "v", "a", "s", "c", "r", "i", "p", "t", ":">>)]
AnchorNoHref == [strings |-> <<TitleExport>>, href |-> JNull]
\* no keyword in title or link
AnchorPlain == [strings |-> <<TitlePlain>>, href |-> JStr(<<"/", "a", "/", "5">>)]
\* no title and no link
AnchorEmpty == [strings |-> << <<" ">> >>, href |-> JStr(<<>>)]

KsMaster == << AnchorExport, AnchorJeonbuk, AnchorShort, AnchorScript, AnchorNoHref,
               AnchorPlain, AnchorEmpty, AnchorJeonbukSplit, AnchorJeonbukWide,
               AnchorExport >>

\* a backlog: n anchors with distinct links, all of them export notices
KsBacklog(n) ==
    [ i \in 1..n |-> [strings |-> <<TitleExport>>,
                      href |-> JStr(<<"/", "a", "/">> \o Digits(i))] ]

KsPages ==
    SubLists(KsMaster, MaxLen) \cup { KsBacklog(KS_PER_RUN_CAP + k) : k \in 0..MaxOver }

KsRequired == { "TELEGRAM_BOT_TOKEN", "TELEGRAM_CHAT_ID" }

KsPreSeenIds == << make_id(TitleExport, KS_ORIGIN \o HrefRel1),
                   make_id(TitleJeonbuk, HrefAbs2) >>
KsFiles ==
    { Absent, Garbage }
    \cup { IdArray(ids) : ids \in SUBSET { KsPreSeenIds[i] : i \in 1..MaxPreSeen } }

----------------------------------------------------------------------------
(* iris_alert.py: pure functions *)

\* text.find(pat): the 0-based index of the first occurrence, or -1
Occurrences(text, pat) ==
    { i \in 0..(Len(text) - Len(pat)) : SubSeq(text, i + 1, i + Len(pat)) = pat }

SetMin(S) == CHOOSE x \in S : \A y \in S : x <= y

Find(text, pat) ==
    IF Occurrences(text, pat) = {} THEN -1 ELSE SetMin(Occurrences(text, pat))

\* text.split("\n"): the pieces between consecutive line breaks
SplitLines(text) ==
    LET breaks == { i \in 1..Len(text) : text[i] = "\n" }
        \* the position of the k-th line break; 0 and Len(text) + 1 bound the text
        Break(k) == IF k = 0 THEN 0
                    ELSE IF k > Cardinality(breaks) THEN Len(text) + 1
                    ELSE CHOOSE i \in breaks : Cardinality({ h \in breaks : h < i }) = k - 1
    IN  [ k \in 1..(Cardinality(breaks) + 1) |->
            SubSeq(text, Break(k - 1) + 1, Break(k) - 1) ]

\* "\n".join(lines)
RECURSIVE JoinLines(_)
JoinLines(lines) ==
    IF lines = <<>> THEN <<>>
    ELSE IF Len(lines) = 1 THEN lines[1]
    ELSE lines[1] \o <<"\n">> \o JoinLines(Tail(lines))

jeopsujung == <<"jeop", "su", "jung">>
magam == <<"ma", "gam">>
jeopsuyejeong == <<"jeop", "su", "ye", "jeong">>
RECEIVING_HEADER == <<"#", "#", "#", "#", " ">> \o jeopsujung
gonggobeonho == <<"gong", "go", "beon", "ho">>
gonggoilja == <<"gong", "go", "il", "ja">>
gonggosangtae == <<"gong", "go", "sang", "tae">>

\* the slice at the receiving section and the stripped, non-empty lines
ReceivingLines(text) ==
    LET idx == IF Find(text, RECEIVING_HEADER) # -1 THEN Find(text, RECEIVING_HEADER)
               ELSE Find(text, jeopsujung)
        cut == IF idx # -1 THEN SubSeq(text, idx + 1, Len(text)) ELSE text
        raw == SplitLines(cut)
    IN  SelectSeq([ i \in 1..Len(raw) |-> Strip(raw[i]) ], LAMBDA ln : ln # <<>>)

\* ministry_pattern.fullmatch(ln): .+\s>\s.+
IsMinistry(ln) ==
    \E i \in 2..(Len(ln) - 3) :
        ln[i] \in WS /\ ln[i + 1] = ">" /\ ln[i + 2] \in WS

DIGITS == { "0", "1", "2", "3", "4", "5", "6", "7", "8", "9" }

\* the first position from p on that holds no white space
RECURSIVE SkipWs(_, _)
SkipWs(ln, p) == IF p <= Len(ln) /\ ln[p] \in WS THEN SkipWs(ln, p + 1) ELSE p

\* the position after `label \s* : \s*` when the line matches it at p, else 0
AfterLabel(ln, p, label) ==
    IF p + Len(label) - 1 <= Len(ln) /\ SubSeq(ln, p, p + Len(label) - 1) = label
    THEN LET q == SkipWs(ln, p + Len(label))
         IN  IF q <= Len(ln) /\ ln[q] = ":" THEN SkipWs(ln, q + 1) ELSE 0
    ELSE 0

IsDateAt(ln, r) ==
    /\ r > 0
    /\ r + 9 <= Len(ln)
    /\ \A k \in {0, 1, 2, 3, 5, 6, 8, 9} : ln[r + k] \in DIGITS
    /\ ln[r + 4] = "-"
    /\ ln[r + 7] = "-"

\* date_pattern.search(meta): the group of the leftmost match, as a list of
\* one string; the empty list when there is no match
DateSearch(meta) ==
    LET at == { p \in 1..Len(meta) : IsDateAt(meta, AfterLabel(meta, p, gonggoilja)) }
    IN  IF at = {} THEN <<>>
        ELSE LET r == AfterLabel(meta, SetMin(at), gonggoilja)
             IN  << SubSeq(meta, r, r + 9) >>

\* the end of the run of non-white-space characters that starts at r
RECURSIVE RunEnd(_, _)
RunEnd(ln, r) == IF r < Len(ln) /\ ln[r + 1] \notin WS THEN RunEnd(ln, r + 1) ELSE r

IsStatusAt(ln, r) == r > 0 /\ r <= Len(ln) /\ ln[r] \notin WS

\* status_pattern.search(meta), likewise
StatusSearch(meta) ==
    LET at == { p \in 1..Len(meta) : IsStatusAt(meta, AfterLabel(meta, p, gonggosangtae)) }
    IN  IF at = {} THEN <<>>
        ELSE LET r == AfterLabel(meta, SetMin(at), gonggosangtae)
             IN  << SubSeq(meta, r, RunEnd(meta, r)) >>

\* the inner loop `while j < len(lines)`: j is the 1-based position examined;
\* title and meta are lists of at most one line.  It ends at the metadata
\* line or past the last line.
RECURSIVE SeekMeta(_, _, _)
SeekMeta(lines, j, title) ==
    IF j > Len(lines) THEN [j |-> j, title |-> title, meta |-> <<>>]
    ELSE IF StartsWith(lines[j], gonggobeonho)
         THEN [j |-> j, title |-> title, meta |-> <<lines[j]>>]
    ELSE IF lines[j] \in { jeopsujung, magam, jeopsuyejeong }
         THEN SeekMeta(lines, j + 1, title)
    ELSE SeekMeta(lines, j + 1, IF title = <<>> THEN <<lines[j]>> ELSE title)

IRIS_LIST_URL == <<"i", "r", "i", "s">>

\* first(l, d): the string of a list of at most one string, d when empty
First(l, d) == IF l = <<>> THEN d ELSE l[1]

\* what the organisation line at i appends to items
MinistryItems(lines, i) ==
    LET r == SeekMeta(lines, i + 1, <<>>)
        pub_date == IF r.meta = <<>> THEN <<>> ELSE DateSearch(r.meta[1])
        status == IF r.meta = <<>> THEN <<>> ELSE StatusSearch(r.meta[1])
    IN  IF r.title # <<>> /\ (status = <<>> \/ Contains(status[1], jeopsujung))
        THEN << [ org |-> lines[i], title |-> r.title[1],
                  pub_date |-> First(pub_date, <<>>),
                  status |-> First(status, <<>>),
                  link |-> IRIS_LIST_URL ] >>
        ELSE <<>>

\* the outer loop `while i < len(lines) and len(items) < limit`, i 1-based
RECURSIVE Scan(_, _, _, _)
Scan(lines, i, items, limit) ==
    IF ~(i <= Len(lines) /\ Len(items) < limit) THEN items
    ELSE IF IsMinistry(lines[i])
         THEN LET j == SeekMeta(lines, i + 1, <<>>).j
              IN  Scan(lines, IF j > i THEN j ELSE i + 1,
                       items \o MinistryItems(lines, i), limit)
    ELSE Scan(lines, i + 1, items, limit)

\* the inner loop once more, keeping the positions of the title and of the
\* metadata line instead of their text (0: none)
RECURSIVE SeekMetaAt(_, _, _)
SeekMetaAt(lines, j, title_at) ==
    IF j > Len(lines) THEN [j |-> j, title_at |-> title_at, meta_at |-> 0]
    ELSE IF StartsWith(lines[j], gonggobeonho)
         THEN [j |-> j, title_at |-> title_at, meta_at |-> j]
    ELSE IF lines[j] \in { jeopsujung, magam, jeopsuyejeong }
         THEN SeekMetaAt(lines, j + 1, title_at)
    ELSE SeekMetaAt(lines, j + 1, IF title_at = 0 THEN j ELSE title_at)

\* the outer loop once more: its iterations in order, each with the cursor
\* i, whether lines[i] was taken as an organisation line, the lines taken as
\* its title and metadata, whether a record was appended, and the cursor the
\* iteration leaves
RECURSIVE ScanSteps(_, _, _, _)
ScanSteps(lines, i, n, limit) ==
    IF ~(i <= Len(lines) /\ n < limit) THEN <<>>
    ELSE IF IsMinistry(lines[i])
         THEN LET r == SeekMetaAt(lines, i + 1, 0)
                  k == Len(MinistryItems(lines, i))
                  next == IF r.j > i THEN r.j ELSE i + 1
              IN  << [ at |-> i, org |-> TRUE, title_at |-> r.title_at,
                       meta_at |-> r.meta_at, emitted |-> k = 1, next |-> next ] >>
                  \o ScanSteps(lines, next, n + k, limit)
    ELSE << [ at |-> i, org |-> FALSE, title_at |-> 0, meta_at |-> 0,
              emitted |-> FALSE, next |-> i + 1 ] >>
         \o ScanSteps(lines, i + 1, n, limit)

\* extract_receiving_items(html, limit), from the text of the page on
extract_receiving_items(text, limit) == Scan(ReceivingLines(text), 1, <<>>, limit)

IRIS_LIMIT == 40
IRIS_MAX_ITEMS == 12

\* build_message(items, max_items)
build_message(items, max_items) ==
    IF items = <<>> THEN [found |-> FALSE]
    ELSE [ found |-> TRUE,
           total |-> Len(items),
           shown |-> Min(Len(items), max_items),
           entries |-> [ i \in 1..Min(Len(items), max_items) |->
               [ title |-> items[i].title, org |-> items[i].org,
                 pub_date |-> items[i].pub_date, link |-> items[i].link ] ] ]

----------------------------------------------------------------------------
(* Inputs: the text of the IRIS page, line by line *)

LineIntro == <<"sa", "eop", " ", "gong", "go">>
LineHeader == RECEIVING_HEADER
LineOrgA == <<"nong", "rim", "bu", " ", ">", " ", "pyeong", "ga", "won">>
LineOrgB == <<"san", "eop", "bu", " ", ">", " ", "jin", "heung", "won">>
LineLabel == jeopsujung
LineTitleA == <<"2", "6", " ", "seu", "ma", "teu", " ", "gong", "go">>
LineTitleB == <<"so", "jae", " ", "gi", "sul", " ", "gong", "go">>
\* number, date and the status "gonggo-jeopsujung" (receiving)
LineMetaReceiving ==
    gonggobeonho \o <<" ", ":", " ", "1", " ">> \o gonggoilja
    \o <<" ", ":", "2", "0", "2", "6", "-", "0", "2", "-", "1", "3", " ">>
    \o gonggosangtae \o <<" ", ":", " ", "gong", "go">> \o jeopsujung \o <<" ", "x">>
\* the status "magam" (closed)
LineMetaClosed ==
    gonggobeonho \o <<" ", ":", " ", "2", " ">> \o gonggoilja
    \o <<":", " ", "2", "0", "2", "6", "-", "0", "1", "-", "0", "2", " ">>
    \o gonggosangtae \o <<":">> \o magam
\* neither date nor status
LineMetaBare == gonggobeonho \o <<" ", ":", " ", "3">>
\* a number that holds " > "
LineMetaArrow == gonggobeonho \o <<" ", ":", " ", "4", " ", ">", " ", "5">>

IrisMaster == << LineIntro, LineHeader, LineOrgA, LineLabel, LineTitleA, LineMetaClosed,
                 LineMetaArrow, LineOrgB, LineTitleB, LineMetaReceiving, LineMetaBare >>

\* the pages: up to MaxLines lines of the master page, in its order (a record
\* takes an organisation, a title and a metadata line)
MaxLines == 5
IrisPages == { JoinLines(l) : l \in SubLists(IrisMaster, MaxLines) }

IrisRequired == { "TELEGRAM_BOT_TOKEN", "TELEGRAM_CHAT_ID" }

----------------------------------------------------------------------------
(* Inputs: the environment variables and the seen-set file before the first run *)

\* each variable is unset, set to white space only, or set (with white space
\* around the value)
EnvValues == { <<" ", "\t">>, <<" ", "k", "1", "\n">> }
EnvsOver(keys) == UNION { [ks -> EnvValues] : ks \in SUBSET keys }

BizRequired == { "BIZINFO_CRTFC_KEY", "TELEGRAM_BOT_TOKEN", "TELEGRAM_CHAT_ID" }

\* os.environ.get(k, "").strip()
EnvGet(env, k) == Strip(Get(env, k, <<>>))

\* ConfigMissing without .strip()
ConfigMissingUntrimmed(env, keys) == \E k \in keys : Get(env, k, <<>>) = <<>>

\* if not a or not b ...: raise SystemExit
ConfigMissing(env, keys) == \E k \in keys : EnvGet(env, k) = <<>>

BizPreSeenIds == << <<"1">>, <<"4">>, <<"P", "2">> >>
BizFiles ==
    { Absent, Garbage }
    \cup { IdArray(ids) : ids \in SUBSET { BizPreSeenIds[i] : i \in 1..MaxPreSeen } }

----------------------------------------------------------------------------
(* State *)

VARIABLES
    prog,      \* the script this behaviour runs: "bizinfo", "kstartup" or "iris"
    environ,   \* os.environ
    file,      \* the script's seen-set file
    remote,    \* what the source answers, fixed from the first fetch on
    pc,        \* where the current run is
    seen,      \* main's local seen
    batches,   \* the sends the current run has decided on, in order
    sent,      \* how many of them have been sent
    loaded,    \* what load_seen returned in the current run
    log,       \* the I/O of the current run, in order
    file0,     \* the seen-set file as the current run found it
    prev       \* the run before the current one: what it loaded, how it ended

vars == << prog, environ, file, remote, pc, seen, batches, sent, loaded, log, file0, prev >>

Unfetched == [t |-> "unfetched"]
Fetched(x) == [t |-> "fetched", v |-> x]

\* what a fetch may return: any answer at first, the same one from then on
Answers(all) == IF remote = Unfetched THEN all ELSE { remote.v }

\* how a run can end: a return of main, or the exception that ended it
Ended == { "done", "config_error", "fetch_error", "send_error" }

\* the I/O operations of log
Read == [op |-> "load_seen"]
FetchOk == [op |-> "fetch", ok |-> TRUE]
FetchFailed == [op |-> "fetch", ok |-> FALSE]
SendOk(b) == [op |-> "telegram_send", ok |-> TRUE, batch |-> b]
SendFailed(b) == [op |-> "telegram_send", ok |-> FALSE, batch |-> b]
Write == [op |-> "save_seen"]

\* before the first run there is no previous run
NoRun == [outcome |-> "none"]

\* a run begins: the one that ended is now the previous one; main reads and
\* checks the configuration
Begin(required) ==
    /\ pc \in Ended \cup { "idle" }
    /\ prev' = IF pc = "idle" THEN prev
               ELSE [loaded |-> loaded, outcome |-> pc]
    /\ pc' = IF ConfigMissing(environ, required) THEN "config_error" ELSE "configured"
    /\ seen' = {}
    /\ loaded' = {}
    /\ batches' = <<>>
    /\ sent' = 0
    /\ log' = <<>>
    /\ file0' = file
    /\ UNCHANGED << prog, environ, file, remote >>

\* SendNext saving the seen-set when telegram_send raises
SendNextSavingOnFailure ==
    /\ pc = "sending"
    /\ sent < Len(batches)
    /\ \/ /\ log' = Append(log, SendOk(batches[sent + 1]))
          /\ seen' = seen \cup { batches[sent + 1].ids[i] :
                                   i \in 1..Len(batches[sent + 1].ids) }
          /\ sent' = sent + 1
          /\ pc' = pc
          /\ file' = file
       \/ /\ log' = Append(log, SendFailed(batches[sent + 1]))
          /\ pc' = "send_error"
          /\ file' = save_seen(seen)
          /\ UNCHANGED << seen, sent >>
    /\ UNCHANGED << prog, environ, remote, batches, loaded, file0, prev >>

\* one pass of the send loop: telegram_send returns, or raises
SendNext ==
    /\ pc = "sending"
    /\ sent < Len(batches)
    /\ \/ /\ log' = Append(log, SendOk(batches[sent + 1]))
          /\ seen' = seen \cup { batches[sent + 1].ids[i] :
                                   i \in 1..Len(batches[sent + 1].ids) }
          /\ sent' = sent + 1
          /\ pc' = pc
       \/ /\ log' = Append(log, SendFailed(batches[sent + 1]))
          /\ pc' = "send_error"
          /\ UNCHANGED << seen, sent >>
    /\ UNCHANGED << prog, environ, file, remote, batches, loaded, file0, prev >>

\* after the loop: save_seen(seen), then main returns
SaveAndReturn ==
    /\ pc = "sending"
    /\ sent = Len(batches)
    /\ file' = save_seen(seen)
    /\ log' = Append(log, Write)
    /\ pc' = "done"
    /\ UNCHANGED << prog, environ, remote, seen, batches, sent, loaded, file0, prev >>

\* seen = load_seen()
LoadSeen ==
    /\ pc = "configured"
    /\ seen' = load_seen(file)
    /\ loaded' = load_seen(file)
    /\ log' = Append(log, Read)
    /\ pc' = "loaded"
    /\ UNCHANGED << prog, environ, file, remote, batches, sent, file0, prev >>

----------------------------------------------------------------------------
(* final_bizinfo.py: main *)

BizStart == prog = "bizinfo" /\ Begin(BizRequired)

BizLoadSeen == prog = "bizinfo" /\ LoadSeen

\* fetch_bizinfo_items raises
BizFetchFails ==
    /\ prog = "bizinfo"
    /\ pc = "loaded"
    /\ log' = Append(log, FetchFailed)
    /\ pc' = "fetch_error"
    /\ UNCHANGED << prog, environ, file, remote, seen, batches, sent, loaded, file0, prev >>

\* fetch_bizinfo_items returns; main filters, caps and groups, and returns
\* early when nothing is left
BizFetch ==
    /\ prog = "bizinfo"
    /\ pc = "loaded"
    /\ \E data \in Answers(BizResponses) :
        /\ remote' = Fetched(data)
        /\ \E plan \in { BizPlan(normalize_items(data), seen) } :
            /\ batches' = plan.batches
            /\ pc' = IF plan.batches = <<>> THEN "done" ELSE "sending"
    /\ log' = Append(log, FetchOk)
    /\ UNCHANGED << prog, environ, file, seen, sent, loaded, file0, prev >>

BizSend == prog = "bizinfo" /\ SendNext

BizSave == prog = "bizinfo" /\ SaveAndReturn

----------------------------------------------------------------------------
(* kstartup_alert.py: main *)

KsStart == prog = "kstartup" /\ Begin(KsRequired)

KsLoadSeen == prog = "kstartup" /\ LoadSeen

\* fetch_kstartup_items raises
KsFetchFails ==
    /\ prog = "kstartup"
    /\ pc = "loaded"
    /\ log' = Append(log, FetchFailed)
    /\ pc' = "fetch_error"
    /\ UNCHANGED << prog, environ, file, remote, seen, batches, sent, loaded, file0, prev >>

\* fetch_kstartup_items returns; main drops the seen items, and returns
\* early when nothing is left
KsFetch ==
    /\ prog = "kstartup"
    /\ pc = "loaded"
    /\ \E page \in Answers(KsPages) :
        /\ remote' = Fetched(page)
        /\ \E plan \in { KsPlan(fetch_kstartup_items(page), seen) } :
            /\ batches' = plan.batches
            /\ pc' = IF plan.new_hits = <<>> THEN "done" ELSE "sending"
    /\ log' = Append(log, FetchOk)
    /\ UNCHANGED << prog, environ, file, seen, sent, loaded, file0, prev >>

KsSend == prog = "kstartup" /\ SendNext

KsSave == prog = "kstartup" /\ SaveAndReturn

----------------------------------------------------------------------------
(* iris_alert.py: main *)

IrisStart == prog = "iris" /\ Begin(IrisRequired)

\* fetch_html raises
IrisFetchFails ==
    /\ prog = "iris"
    /\ pc = "configured"
    /\ log' = Append(log, FetchFailed)
    /\ pc' = "fetch_error"
    /\ UNCHANGED << prog, environ, file, remote, seen, batches, sent, loaded, file0, prev >>

\* fetch_html returns; main extracts the items and builds the one message
IrisFetch ==
    /\ prog = "iris"
    /\ pc = "configured"
    /\ \E text \in Answers(IrisPages) :
        /\ remote' = Fetched(text)
        /\ batches' = << [ msg |-> build_message(
                                      extract_receiving_items(text, IRIS_LIMIT),
                                      IRIS_MAX_ITEMS),
                           ids |-> <<>> ] >>
    /\ log' = Append(log, FetchOk)
    /\ pc' = "sending"
    /\ UNCHANGED << prog, environ, file, seen, sent, loaded, file0, prev >>

\* telegram_send returns and main ends, or telegram_send raises
IrisSend ==
    /\ prog = "iris"
    /\ pc = "sending"
    /\ \/ /\ log' = Append(log, SendOk(batches[1]))
          /\ sent' = 1
          /\ pc' = "done"
       \/ /\ log' = Append(log, SendFailed(batches[1]))
          /\ pc' = "send_error"
          /\ UNCHANGED sent
    /\ UNCHANGED << prog, environ, file, remote, seen, batches, loaded, file0, prev >>

----------------------------------------------------------------------------

Init ==
    /\ \/ /\ prog = "bizinfo"
          /\ environ \in EnvsOver(BizRequired)
          /\ file \in BizFiles
       \/ /\ prog = "kstartup"
          /\ environ \in EnvsOver(KsRequired)
          /\ file \in KsFiles
       \/ /\ prog = "iris"
          /\ environ \in EnvsOver(IrisRequired)
          /\ file = Absent
    /\ remote = Unfetched
    /\ pc = "idle"
    /\ seen = {}
    /\ batches = <<>>
    /\ sent = 0
    /\ loaded = {}
    /\ log = <<>>
    /\ file0 = file
    /\ prev = NoRun

Next ==
    \/ BizStart
    \/ BizLoadSeen
    \/ BizFetchFails
    \/ BizFetch
    \/ BizSend
    \/ BizSave
    \/ KsStart
    \/ KsLoadSeen
    \/ KsFetchFails
    \/ KsFetch
    \/ KsSend
    \/ KsSave
    \/ IrisStart
    \/ IrisFetchFails
    \/ IrisFetch
    \/ IrisSend

Spec == Init /\ [][Next]_vars

----------------------------------------------------------------------------
(* Vocabulary of the properties *)

\* the scripts that keep a seen-set
Tracked == prog \in { "bizinfo", "kstartup" }

\* the telegram_send calls of a log, and those that returned
Sends(l) == SelectSeq(l, LAMBDA e : e.op = "telegram_send")
OkSends(l) == SelectSeq(l, LAMBDA e : e.op = "telegram_send" /\ e.ok)

HasWrite(l) == \E i \in 1..Len(l) : l[i].op = "save_seen"

\* the candidates of the messages of a list of sends, counted with repetition
RECURSIVE CandidateCount(_)
CandidateCount(sends) ==
    IF sends = <<>> THEN 0
    ELSE Len(Head(sends).batch.ids) + CandidateCount(Tail(sends))

RECURSIVE IdCount(_)
IdCount(bs) == IF bs = <<>> THEN 0 ELSE Len(Head(bs).ids) + IdCount(Tail(bs))

\* the records the Bizinfo response carries
FetchedItems == normalize_items(remote.v)

\* the unseen, identified, relevant records among them, for a seen-set
Relevant(seen_ids) ==
    SelectSeq(FetchedItems,
              LAMBDA r : SeqOf(r) # <<>> /\ SeqOf(r) \notin seen_ids /\ matches_keywords(r))

\* the new candidates a run finds that starts with the seen-set seen_ids
NewCandidates(seen_ids) ==
    IF prog = "bizinfo" THEN Len(Relevant(seen_ids))
    ELSE LET items == fetch_kstartup_items(remote.v)
         IN  Cardinality({ i \in 1..Len(items) :
                             make_id(items[i].title, items[i].link) \notin seen_ids })

\* the fetch of the run has just returned its response
JustFetched == log # <<>> /\ log[Len(log)] = FetchOk

RunCap == IF prog = "bizinfo" THEN PER_RUN_CAP ELSE KS_PER_RUN_CAP

\* two runs in succession, neither with a transport failure, the first one
\* from an empty seen-set
TwoCleanRuns == Tracked /\ pc = "done" /\ prev.outcome = "done" /\ prev.loaded = {}

----------------------------------------------------------------------------
(* C1: idempotency across runs *)

----------------------------------------------------------------------------
(* C2: only identifiers of sent candidates are persisted *)

\* the identifiers of the candidates of the message of one send
CandidateIds(e) ==
    IF prog = "bizinfo"
    THEN LET items == FetchedItems
         IN  { SeqOf(items[i]) : i \in
                 { n \in 1..Len(items) :
                     /\ matches_keywords(items[n])
                     /\ classify_item(items[n]) = e.batch.msg.category } }
    ELSE { make_id(e.batch.msg.title, e.batch.msg.link) }

SentCandidateIds ==
    LET ok == OkSends(log) IN UNION { CandidateIds(ok[i]) : i \in 1..Len(ok) }

\* the fetched records that passed the relevance filter and got no category
UnclassifiedIds ==
    LET items == FetchedItems
    IN  { SeqOf(items[n]) : n \in
            { i \in 1..Len(items) :
                /\ SeqOf(items[i]) # <<>>
                /\ matches_keywords(items[i])
                /\ classify_item(items[i]) = None } }

\* C2: when a run has ended, every identifier of the persisted seen-set was
\* in the seen-set the run started from (what load_seen returns for the file
\* as the run found it) or is the identifier of a candidate of a message sent
\* successfully in the run.
C2_OnlySentPersisted ==
    (Tracked /\ pc \in Ended) =>
        load_seen(file) \subseteq load_seen(file0) \cup SentCandidateIds

\* a run that sent and saved, and left the identifier of a relevant record
\* without category out of the seen-set
C2_Witness ==
    /\ prog = "bizinfo"
    /\ pc = "done"
    /\ load_seen(file) # loaded
    /\ \E id \in UnclassifiedIds : id \notin load_seen(file)

----------------------------------------------------------------------------
(* C3: persistence once any message was sent *)

\* C3 as stated: a run in which a telegram_send call succeeded ends with
\* save_seen as its last step, whatever happened to the later sends.
C3_SavedOnceSent ==
    (Tracked /\ pc \in Ended /\ OkSends(log) # <<>>) => log[Len(log)].op = "save_seen"

----------------------------------------------------------------------------
(* C4: a transport failure ends the run and leaves the seen-set file alone *)

TransportFailed == pc \in { "fetch_error", "send_error" }

\* C4: when a fetch or a send has raised, the failing call is the last I/O of
\* the run and the only one that failed (no retry, no later send), save_seen
\* was not executed and the seen-set file is as the run found it.
C4_FailureEndsRun ==
    TransportFailed =>
        /\ log[Len(log)].op \in { "fetch", "telegram_send" }
        /\ ~log[Len(log)].ok
        /\ \A i \in 1..(Len(log) - 1) :
              log[i].op \in { "fetch", "telegram_send" } => log[i].ok
        /\ ~HasWrite(log)
        /\ file = file0

\* a send raised after an earlier send of the run had succeeded
C4_Witness ==
    /\ Tracked
    /\ pc = "send_error"
    /\ OkSends(log) # <<>>
    /\ file = file0

----------------------------------------------------------------------------
(* C5: per-run cap *)

\* C5: one run of final_bizinfo passes at most 60 candidates on to the
\* messages, and one run of kstartup_alert sends at most 30 messages.
C5_PerRunCap ==
    /\ prog = "bizinfo" => IdCount(batches) <= PER_RUN_CAP
    /\ prog = "kstartup" =>
          Len(batches) <= KS_PER_RUN_CAP /\ Len(Sends(log)) <= KS_PER_RUN_CAP

\* a run that found more candidates than the cap and sent exactly the cap
C5_Witness ==
    /\ prog = "bizinfo"
    /\ pc = "done"
    /\ NewCandidates(loaded) > PER_RUN_CAP
    /\ CandidateCount(OkSends(log)) = PER_RUN_CAP

----------------------------------------------------------------------------
(* C6: growth of the seen-set *)

\* C6 as stated: in a run that completes without transport failure, the
\* seen-set grows by exactly the number of candidates of the messages sent.
C6_GrowthIsSentCount ==
    (Tracked /\ pc = "done") =>
        Cardinality(load_seen(file)) - Cardinality(loaded) = CandidateCount(OkSends(log))

----------------------------------------------------------------------------
(* C7: priority of the classifier *)

TERM_SETS == << EXPORT_TERMS, FIN_TERMS, RND_TERMS, JEONBUK_TERMS, CHUNGNAM_TERMS >>

\* the term-sets, by rank, that have a term in the text of the record
Matching(item) == { k \in 1..Len(TERM_SETS) : AnyIn(TERM_SETS[k], ClassifyText(item)) }

\* C7: for every record of a fetched response, classify_item returns the
\* category of the first term-set, in the order export, financing, R&D,
\* Jeonbuk, Chungnam/Cheonan, that has a term in the text of the record, and
\* None when no term-set has one.
C7_FirstMatchingTermSet ==
    (prog = "bizinfo" /\ JustFetched) =>
        LET items == FetchedItems
        IN  \A n \in 1..Len(items) :
                LET ranks == Matching(items[n])
                IN  classify_item(items[n]) =
                        IF ranks = {} THEN None ELSE order[SetMin(ranks)]

\* a record with an export term and a financing term went out in the export
\* digest
C7_Witness ==
    /\ prog = "bizinfo"
    /\ remote # Unfetched
    /\ LET items == FetchedItems
           ok == OkSends(log)
       IN  \E n \in 1..Len(items) :
             /\ { 1, 2 } \subseteq Matching(items[n])
             /\ \E i \in 1..Len(ok) :
                   /\ ok[i].batch.msg.category = CatExport
                   /\ \E j \in 1..Len(ok[i].batch.ids) :
                         ok[i].batch.ids[j] = SeqOf(items[n])

----------------------------------------------------------------------------
(* C8: normalisation of the response shapes *)

\* the record objects of a list
Objects(l) == SelectSeq(l, LAMBDA x : x \in Elements \ { Junk })

\* the four documented shapes agree on the records l
ShapesAgree(l) ==
    /\ normalize_items(ShapeArray(l)) = Objects(l)
    /\ normalize_items(ShapeJsonArray(l)) = Objects(l)
    /\ normalize_items(ShapeItemArray(l)) = Objects(l)
    /\ (Len(l) = 1 /\ l = Objects(l)) => normalize_items(ShapeItemObject(l[1])) = l

Undocumented == OtherShapes \cup { ShapeItemObject(Junk) }

\* C8: whatever documented shape the response has, normalize_items returns
\* the record objects it carries, the same list for each of the shapes that
\* can carry them; for any other shape it returns the empty list.
C8_ShapesNormalised ==
    (prog = "bizinfo" /\ JustFetched) =>
        /\ \A l \in ShortLists :
              remote.v \in { ShapeArray(l), ShapeJsonArray(l), ShapeItemArray(l) }
                  \cup (IF Len(l) = 1 THEN { ShapeItemObject(l[1]) } ELSE {})
              => ShapesAgree(l)
        /\ remote.v \in Undocumented => normalize_items(remote.v) = <<>>

\* the response was jsonArray.item holding one object, and its record was sent
C8_Witness ==
    /\ prog = "bizinfo"
    /\ remote = Fetched(ShapeItemObject(RecExpFin))
    /\ CandidateCount(OkSends(log)) = 1

----------------------------------------------------------------------------
(* C9: short-circuit when nothing is actionable *)

\* a stage of the run left nothing to act on: no record fetched, no unseen
\* relevant record, or no category for any candidate within the cap
ZeroActionable ==
    IF prog = "bizinfo"
    THEN LET within == Take(Relevant(loaded), PER_RUN_CAP)
         IN  \A i \in 1..Len(within) : classify_item(within[i]) = None
    ELSE NewCandidates(loaded) = 0

\* C9: when the fetch has returned and a stage yields nothing actionable, the
\* run has ended normally, with no telegram_send call and no write of the
\* seen-set.
C9_ShortCircuit ==
    (Tracked /\ JustFetched /\ ZeroActionable) =>
        /\ pc = "done"
        /\ Sends(log) = <<>>
        /\ ~HasWrite(log)
        /\ file = file0

\* a run that found relevant records, none with a category, and returned
C9_Witness ==
    /\ prog = "bizinfo"
    /\ pc = "done"
    /\ Relevant(loaded) # <<>>
    /\ ZeroActionable
    /\ log = << Read, FetchOk >>

----------------------------------------------------------------------------
(* C10: a configuration error precedes all I/O *)

Required ==
    IF prog = "bizinfo" THEN BizRequired
    ELSE IF prog = "kstartup" THEN KsRequired
    ELSE IrisRequired

\* a required variable is unset, or holds white space only
RequiredBlank ==
    \E k \in Required :
        \/ k \notin DOMAIN environ
        \/ \A i \in 1..Len(environ[k]) : environ[k][i] \in WS

\* C10: with a required configuration value missing or blank, a run ends in
\* the configuration error with no I/O done: no fetch, no send, no read and
\* no write of the seen-set.
C10_ConfigErrorBeforeIO ==
    RequiredBlank =>
        /\ pc \in { "idle", "config_error" }
        /\ log = <<>>
        /\ remote = Unfetched
        /\ file = file0

\* a run aborted on a variable that is set, but to white space only
C10_Witness ==
    /\ pc = "config_error"
    /\ \E k \in Required : k \in DOMAIN environ /\ Strip(environ[k]) = <<>>
    /\ \E k \in Required : k \in DOMAIN environ /\ Strip(environ[k]) # <<>>

----------------------------------------------------------------------------
(* Runs that find a seen-set file that is no array of identifiers *)

\* the store is missing, is not JSON, or is JSON of another kind: a number,
\* null, an array holding an array, a string, an object
CorruptFiles ==
    { Absent, Garbage,
      JsonDoc(JNum(7)), JsonDoc(JNull), JsonDoc(JList(<< JList(<<>>) >>)),
      JsonDoc(JStr(<<"1", "4">>)), JsonDoc(JDict("1" :> JNum(0))) }

\* every required variable is set
EnvSet(keys) == [ k \in keys |-> <<" ", "k", "1", "\n">> ]

CorruptInit ==
    /\ \/ prog = "bizinfo" /\ environ = EnvSet(BizRequired)
       \/ prog = "kstartup" /\ environ = EnvSet(KsRequired)
    /\ file \in CorruptFiles
    /\ remote = Unfetched
    /\ pc = "idle"
    /\ seen = {}
    /\ batches = <<>>
    /\ sent = 0
    /\ loaded = {}
    /\ log = <<>>
    /\ file0 = file
    /\ prev = NoRun

TrackedNext ==
    \/ BizStart
    \/ BizLoadSeen
    \/ BizFetchFails
    \/ BizFetch
    \/ BizSend
    \/ BizSave
    \/ KsStart
    \/ KsLoadSeen
    \/ KsFetchFails
    \/ KsFetch
    \/ KsSend
    \/ KsSave

CorruptSpec == CorruptInit /\ [][TrackedNext]_vars

----------------------------------------------------------------------------
(* C11: a missing or corrupt seen-set store reads as the empty set *)

\* C11 as stated: when the run found a store that is missing, not parseable
\* or not a collection of identifiers, load_seen has returned the empty set.
C11_CorruptReadsEmpty ==
    (log # <<>> /\ file0.t # "array") => loaded = {}

----------------------------------------------------------------------------
(* C12: the identifier of an announcement does not depend on white space *)

\* a text with its white space stripped at both ends and every inner run of
\* white space collapsed to one space
Collapse(s) ==
    LET t == Strip(s)
        marked == [ i \in 1..Len(t) |->
                      [ c |-> IF t[i] \in WS THEN " " ELSE t[i],
                        keep |-> ~(t[i] \in WS /\ i > 1 /\ t[i - 1] \in WS) ] ]
        kept == SelectSeq(marked, LAMBDA m : m.keep)
    IN  [ i \in 1..Len(kept) |-> kept[i].c ]

\* two anchors show the same announcement: the same link, and titles that
\* differ in white space only
SameAnnouncement(a, b) ==
    /\ a.href = b.href
    /\ Collapse(JoinSp(a.strings)) = Collapse(JoinSp(b.strings))

\* the identifiers main computes for what fetch_kstartup_items keeps of an anchor
AnchorIds(a) ==
    LET its == AnchorItems(a)
    IN  { make_id(its[i].title, its[i].link) : i \in 1..Len(its) }

\* the anchors another fetch of the page may show
KsAnchors == { KsMaster[i] : i \in 1..Len(KsMaster) }

\* C12 as stated: an anchor of the fetched page and an anchor of another
\* fetch that show the same announcement, their titles differing in leading,
\* trailing or inner white space only, get the same identifier.
C12_WhitespaceStable ==
    (prog = "kstartup" /\ JustFetched) =>
        \A i \in 1..Len(remote.v) : \A b \in KsAnchors :
            SameAnnouncement(remote.v[i], b) => AnchorIds(remote.v[i]) = AnchorIds(b)

----------------------------------------------------------------------------
(* C13: one digest per non-empty category, in the fixed order *)

\* the order the claim names: export, financing, R&D, Jeonbuk, Chungnam/Cheonan
DigestOrder == << "export", "financing", "rnd", "jeonbuk", "chungnam_cheonan" >>

Rank(cat) == CHOOSE k \in 1..Len(DigestOrder) : DigestOrder[k] = cat

\* the categories classify_item gives the candidates of the run within the cap
NonEmptyCategories ==
    LET within == Take(Relevant(loaded), PER_RUN_CAP)
    IN  { classify_item(within[i]) : i \in 1..Len(within) } \ { None }

\* the identifiers of the digests whose send has returned
MarkedBySends ==
    LET ok == OkSends(log)
    IN  UNION { { ok[i].batch.ids[j] : j \in 1..Len(ok[i].batch.ids) } : i \in 1..Len(ok) }

\* C13: in a run of final_bizinfo.main the categories of the sends follow
\* the fixed order strictly (so no category is sent twice), a completed run
\* has sent a digest for exactly the categories that have a candidate, and
\* at every moment the identifiers marked seen are those of the digests
\* whose send has returned.
C13_DigestOrder ==
    prog = "bizinfo" =>
        LET sends == Sends(log) IN
        /\ \A i \in 1..Len(sends) :
              /\ sends[i].batch.msg.category \in { DigestOrder[k] : k \in 1..Len(DigestOrder) }
              /\ i > 1 => Rank(sends[i - 1].batch.msg.category)
                              < Rank(sends[i].batch.msg.category)
        /\ seen = loaded \cup MarkedBySends
        /\ pc = "done" =>
              { sends[i].batch.msg.category : i \in 1..Len(sends) } = NonEmptyCategories

\* a completed run sent the export digest and then the Chungnam/Cheonan
\* digest, skipping the categories between, for a payload that lists the
\* Cheonan record first
C13_Witness ==
    /\ prog = "bizinfo"
    /\ pc = "done"
    /\ remote = Fetched(ShapeArray(<< RecCheonan, RecExpFin >>))
    /\ Len(OkSends(log)) = 2
    /\ OkSends(log)[1].batch.msg.category = CatExport
    /\ OkSends(log)[2].batch.msg.category = CatChungnam

----------------------------------------------------------------------------
(* C14: no notification of an announcement that is in the loaded seen-set *)

\* the identifiers of the announcements a message includes: those of the
\* candidates of a digest (as many as the digest counts), the identifier of
\* the title and link an alert of kstartup_alert shows
IncludedIds(e) ==
    IF prog = "bizinfo" THEN { e.batch.ids[j] : j \in 1..Len(e.batch.ids) }
    ELSE { make_id(e.batch.msg.title, e.batch.msg.link) }

\* C14: no message sent in a run, whether the send returned or raised,
\* includes an announcement whose identifier load_seen returned at the start
\* of the run; a digest counts exactly the candidates it includes.
C14_SeenNotSent ==
    Tracked =>
        LET sends == Sends(log) IN
        \A i \in 1..Len(sends) :
            /\ IncludedIds(sends[i]) \cap loaded = {}
            /\ prog = "bizinfo" => sends[i].batch.msg.total = Len(sends[i].batch.ids)

\* a run sent a digest although the response held a record with a category
\* whose identifier was in the loaded seen-set
C14_Witness ==
    /\ prog = "bizinfo"
    /\ OkSends(log) # <<>>
    /\ LET items == FetchedItems
       IN  \E n \in 1..Len(items) :
             /\ SeqOf(items[n]) \in loaded
             /\ matches_keywords(items[n])
             /\ classify_item(items[n]) # None

----------------------------------------------------------------------------
(* C15: iris_alert.main when the page yields no record *)

\* C15 as stated: a run of iris_alert.main that called telegram_send had
\* extracted at least one record from the fetched page (with zero records it
\* reaches the end without a send).
C15_IrisShortCircuit ==
    (prog = "iris" /\ Sends(log) # <<>>) =>
        extract_receiving_items(remote.v, IRIS_LIMIT) # <<>>

----------------------------------------------------------------------------
(* C16: the line scanner uses no line twice *)

\* the iterations of the scan of the fetched page
PageSteps == ScanSteps(ReceivingLines(remote.v), 1, 0, IRIS_LIMIT)

\* the lines an iteration took as the title and the metadata line of its
\* organisation line, and all the lines it took
Consumed(s) == { s.title_at, s.meta_at } \ { 0 }
Used(s) == IF s.org THEN { s.at } \cup Consumed(s) ELSE {}

\* C16 as stated (its last part): a line the scan took as the title or the
\* metadata line of one record is not taken as the organisation, title or
\* metadata line of another record.
C16_NoLineUsedTwice ==
    (prog = "iris" /\ JustFetched) =>
        LET steps == PageSteps
        IN  \A a, b \in 1..Len(steps) :
                (a # b /\ steps[a].emitted /\ steps[b].emitted)
                    => Consumed(steps[a]) \cap Used(steps[b]) = {}

----------------------------------------------------------------------------
(* C18: a record of the line scanner is one announcement *)

\* C18 as stated: for every record extract_receiving_items appends, no other
\* organisation line lies between the organisation line of the record and
\* the metadata line its date and status were read from.
C18_RecordIsOneAnnouncement ==
    (prog = "iris" /\ JustFetched) =>
        LET lines == ReceivingLines(remote.v)
            steps == ScanSteps(lines, 1, 0, IRIS_LIMIT)
        IN  \A a \in 1..Len(steps) :
                (steps[a].emitted /\ steps[a].meta_at # 0) =>
                    \A k \in (steps[a].at + 1)..(steps[a].meta_at - 1) : ~IsMinistry(lines[k])

----------------------------------------------------------------------------
(* C17: a record needs a title or a link *)

\* C17 as stated (for the messages of final_bizinfo.main): no entry of a
\* sent digest stands for a record that has neither a title (title,
\* pblancNm) nor a link (link, pblancUrl).
C17_UsableOnly ==
    prog = "bizinfo" =>
        LET ok == OkSends(log)
        IN  \A i \in 1..Len(ok) : \A k \in 1..Len(ok[i].batch.msg.entries) :
                ~(/\ ok[i].batch.msg.entries[k].title = NoTitle
                  /\ ok[i].batch.msg.entries[k].link = JStr(<<>>))

----------------------------------------------------------------------------
(* C20: what is marked seen was shown *)

\* C20 as stated: a digest whose send returned has a numbered entry for each
\* of the candidates whose identifiers the send marks seen.
C20_MarkedIsShown ==
    prog = "bizinfo" =>
        LET ok == OkSends(log)
        IN  \A i \in 1..Len(ok) :
                Len(ok[i].batch.ids) <= Len(ok[i].batch.msg.entries)

----------------------------------------------------------------------------
(* C19: the backlog is drained in the end *)

\* final_bizinfo.main run again and again, from a configuration that is
\* complete; every step that can be taken is taken in the end
DrainInit ==
    /\ prog = "bizinfo"
    /\ environ = EnvSet(BizRequired)
    /\ file \in BizFiles
    /\ remote = Unfetched
    /\ pc = "idle"
    /\ seen = {}
    /\ batches = <<>>
    /\ sent = 0
    /\ loaded = {}
    /\ log = <<>>
    /\ file0 = file
    /\ prev = NoRun

BizNext ==
    \/ BizStart
    \/ BizLoadSeen
    \/ BizFetchFails
    \/ BizFetch
    \/ BizSend
    \/ BizSave

DrainSpec == DrainInit /\ [][BizNext]_vars /\ WF_vars(BizNext)

\* every identified record of the response that passes the relevance filter
\* and has a category is in the persisted seen-set
Drained ==
    /\ remote # Unfetched
    /\ LET items == FetchedItems
           saved == load_seen(file)
       IN  \A n \in 1..Len(items) :
             ( /\ SeqOf(items[n]) # <<>>
               /\ matches_keywords(items[n])
               /\ classify_item(items[n]) # None ) => SeqOf(items[n]) \in saved

\* C19 as stated: with runs repeated over a fixed response and no transport
\* failure, in the end every relevant record with a category has been sent
\* and marked seen, however many records precede it.
C19_BacklogDrained == <>(TransportFailed \/ Drained)

====
